---- MODULE Spec2Model ----
(***************************************************************************)
(* AwakePro: the chat gateway (request handler, model router, automation   *)
(* detector).  The repository holds several builds of the server:          *)
(*   "routes"     server/routes.ts + services/openrouter.ts                *)
(*   "safeRoutes" the routes.ts revision with a fallback service           *)
(*   "dist"       dist/index.js, the compiled bundle of that revision      *)
(*   "simple"     server/index.ts (SimpleOpenRouterService)                *)
(*   "safe"       the index.ts revision with SafeOpenRouterService         *)
(* A run of the model is one process of one build, fixed at start-up       *)
(* together with the presence of OPENROUTER_API_KEY.                       *)
(*                                                                         *)
(* Strings the code inspects character by character (the request message)  *)
(* are sequences of UTF-16 code units, one string per code unit: an ASCII   *)
(* character stands for itself, any other code unit is written by its code *)
(* unit ("U+212A").  Strings the code only passes along or concatenates     *)
(* (contents, errors, ids) are TLA+ strings.                               *)
(***************************************************************************)
EXTENDS Integers, Sequences, FiniteSets, TLC

\* ------------------------------------------------------------------ bounds
MaxReq == 2          \* chat requests one run receives
MaxClock == 1        \* the last millisecond Date.now() reaches
MaxFrags == 3        \* fragments concatenated into a detector input

Requests == 1..MaxReq

\* ------------------------------------------------------ JavaScript strings
UpperChars == <<"A","B","C","D","E","F","G","H","I","J","K","L","M",
                "N","O","P","Q","R","S","T","U","V","W","X","Y","Z">>
LowerChars == <<"a","b","c","d","e","f","g","h","i","j","k","l","m",
                "n","o","p","q","r","s","t","u","v","w","x","y","z">>

\* The model's alphabet is ASCII, the white space of ECMAScript and the code
\* units below; the string operators are defined on this alphabet only.
\* The cased code units outside ASCII, with the code units of their lower
\* case: KELVIN SIGN (k), I WITH DOT ABOVE (two code units), and letters of
\* Latin-1, Greek, Cyrillic and the full-width forms.  CAPITAL SIGMA is given
\* its lower case outside the Final_Sigma context (see FinalSigma).
UnicodeLower ==
  [c \in {"U+212A", "U+0130", "U+00C0", "U+00C9", "U+0391", "U+03A3",
          "U+0410", "U+0411", "U+FF21", "U+FF25", "U+FF29", "U+FF2C", "U+FF2D"} |->
     CASE c = "U+212A" -> <<"k">>
       [] c = "U+0130" -> <<"i", "U+0307">>
       [] c = "U+00C0" -> <<"U+00E0">>
       [] c = "U+00C9" -> <<"U+00E9">>
       [] c = "U+0391" -> <<"U+03B1">>
       [] c = "U+03A3" -> <<"U+03C3">>
       [] c = "U+0410" -> <<"U+0430">>
       [] c = "U+0411" -> <<"U+0431">>
       [] c = "U+FF21" -> <<"U+FF41">>
       [] c = "U+FF25" -> <<"U+FF45">>
       [] c = "U+FF29" -> <<"U+FF49">>
       [] c = "U+FF2C" -> <<"U+FF4C">>
       [] c = "U+FF2D" -> <<"U+FF4D">>]

\* A..Z with the code unit of their lower case
AsciiLower ==
  [c \in {UpperChars[i] : i \in 1..Len(UpperChars)} |->
     <<LowerChars[CHOOSE i \in 1..Len(UpperChars) : UpperChars[i] = c]>>]

\* the code units String.prototype.trim strips: WhiteSpace (TAB, VT, FF, SP,
\* NBSP, ZWNBSP and the space separators) and LineTerminator (LF, CR, LS, PS)
WhiteSpaceChars ==
  { "\t", "U+000B", "\f", " ", "U+00A0", "U+FEFF",
    "U+1680", "U+2000", "U+2001", "U+2002", "U+2003", "U+2004", "U+2005",
    "U+2006", "U+2007", "U+2008", "U+2009", "U+200A", "U+202F", "U+205F", "U+3000",
    "\n", "\r", "U+2028", "U+2029" }

\* the code units of the alphabet that toLowerCase leaves as they are: the
\* lower-case letters, digits, punctuation (without the quotation mark, the
\* backslash and the grave accent), white space, COMBINING DOT ABOVE,
\* and the surrogates (U+D801 U+DC00 is DESERET CAPITAL LONG I, a pair)
LowerFixed ==
  {LowerChars[i] : i \in 1..Len(LowerChars)}
  \cup {"0", "1", "2", "3", "4", "5", "6", "7", "8", "9"}
  \cup {"!", "#", "$", "%", "&", "'", "(", ")", "*", "+", ",", "-", ".", "/",
        ":", ";", "<", "=", ">", "?", "@", "[", "]", "^", "_", "{", "|",
        "}", "~"}
  \cup WhiteSpaceChars
  \cup {"U+00E0", "U+00E9", "U+0307", "U+03B1", "U+03C2", "U+03C3", "U+0430", "U+0431",
        "U+FF41", "U+FF45", "U+FF49", "U+FF4C", "U+FF4D",
        "U+D801", "U+DC00", "U+DC28"}

\* the code units of c.toLowerCase(), c a string of one code unit of the
\* alphabet
ToLowerChar(c) ==
  CASE c \in DOMAIN AsciiLower -> AsciiLower[c]
    [] c \in DOMAIN UnicodeLower -> UnicodeLower[c]
    [] c \in LowerFixed -> <<c>>

\* the code units of the alphabet with the property Cased, and those with the
\* property Case_Ignorable
CasedChars ==
  DOMAIN AsciiLower \cup DOMAIN UnicodeLower
  \cup {LowerChars[i] : i \in 1..Len(LowerChars)}
  \cup {"U+00E0", "U+00E9", "U+03B1", "U+03C2", "U+03C3", "U+0430", "U+0431",
        "U+FF41", "U+FF45", "U+FF49", "U+FF4C", "U+FF4D"}
CaseIgnorableChars == {"'", ".", ":", "^", "U+0307", "U+FEFF"}

\* the code units i-1, i of s are a cased letter of a supplementary plane
CasedPairAt(s, i) ==
  i > 1 /\ i <= Len(s) /\ s[i - 1] = "U+D801" /\ s[i] \in {"U+DC00", "U+DC28"}

\* Final_Sigma: the code unit i of s follows a cased letter and case-ignorable
\* characters, and no case-ignorable characters and a cased letter follow it
FinalSigma(s, i) ==
  /\ \E j \in 1..(i - 1) :
       /\ s[j] \in CasedChars \/ CasedPairAt(s, j)
       /\ \A h \in (j + 1)..(i - 1) : s[h] \in CaseIgnorableChars
  /\ ~\E j \in (i + 1)..Len(s) :
        /\ s[j] \in CasedChars \/ CasedPairAt(s, j + 1)
        /\ \A h \in (i + 1)..(j - 1) : s[h] \in CaseIgnorableChars

\* the code units toLowerCase writes for the code unit i of s
LowerAt(s, i) ==
  IF s[i] = "U+03A3" /\ FinalSigma(s, i) THEN <<"U+03C2">>
  ELSE IF s[i] = "U+DC00" /\ CasedPairAt(s, i) THEN <<"U+DC28">>
  ELSE ToLowerChar(s[i])

\* String.prototype.toLowerCase
toLowerCase(s) ==
  LET lower[i \in 0..Len(s)] ==
        IF i = 0 THEN <<>> ELSE lower[i - 1] \o LowerAt(s, i)
  IN lower[Len(s)]

\* String.prototype.indexOf, scanning from position i (1-based): the first
\* position at or after i where k occurs; 0 = not found
indexOfFrom(s, k, i) ==
  LET found == {j \in i..(Len(s) - Len(k) + 1) : SubSeq(s, j, j + Len(k) - 1) = k}
  IN IF found = {} THEN 0 ELSE CHOOSE j \in found : \A h \in found : j <= h

\* String.prototype.includes
includes(s, k) == \E str \in {s} : indexOfFrom(str, k, 1) # 0

IsWhiteSpace(c) == c \in WhiteSpaceChars

RECURSIVE trimStart(_)
trimStart(s) ==
  IF s = <<>> THEN s
  ELSE IF IsWhiteSpace(Head(s)) THEN trimStart(Tail(s)) ELSE s

RECURSIVE trimEnd(_)
trimEnd(s) ==
  IF s = <<>> THEN s
  ELSE IF IsWhiteSpace(s[Len(s)]) THEN trimEnd(SubSeq(s, 1, Len(s) - 1)) ELSE s

\* String.prototype.trim
trim(s) == trimEnd(trimStart(s))

\* ---------------------------------------------------- automation detector
KwEmail == <<"e","m","a","i","l">>
KwTask  == <<"t","a","s","k">>
KwSlack == <<"s","l","a","c","k">>

\* The icon glyphs (U+1F4E7, U+2705, U+1F4AC) are written by name.  In
\* server/index.ts the file holds each glyph's UTF-8 bytes read as cp1252 and
\* saved again: the icons of that build are these other strings.
Icons(b) ==
  IF b = "simple"
  THEN [email |-> "U+00F0 U+0178 U+201C U+00A7",
        task  |-> "U+00E2 U+0153 U+2026",
        slack |-> "U+00F0 U+0178 U+2019 U+00AC"]
  ELSE [email |-> "envelope", task |-> "check", slack |-> "speech"]

EmailAction(b) ==
  [type |-> "email", message |-> "Action simulated: Email sent!", icon |-> Icons(b).email]
TaskAction(b) ==
  [type |-> "task", message |-> "Action simulated: Jira task created!", icon |-> Icons(b).task]
SlackAction(b) ==
  [type |-> "slack", message |-> "Action simulated: Slack message posted!",
   icon |-> Icons(b).slack]

\* mutant: the message is searched as typed, without lower-casing
detectAutomations_caseSensitive(b, message) ==
  (IF includes(message, KwEmail) THEN <<EmailAction(b)>> ELSE <<>>)
  \o (IF includes(message, KwTask) THEN <<TaskAction(b)>> ELSE <<>>)
  \o (IF includes(message, KwSlack) THEN <<SlackAction(b)>> ELSE <<>>)

\* mutant: the slack action is pushed before the task action
detectAutomations_slackFirst(b, message) ==
  LET lowerMessage == toLowerCase(message) IN
  (IF includes(lowerMessage, KwEmail) THEN <<EmailAction(b)>> ELSE <<>>)
  \o (IF includes(lowerMessage, KwSlack) THEN <<SlackAction(b)>> ELSE <<>>)
  \o (IF includes(lowerMessage, KwTask) THEN <<TaskAction(b)>> ELSE <<>>)

detectAutomations(b, message) ==
  LET lowerMessage == toLowerCase(message) IN
  (IF includes(lowerMessage, KwEmail) THEN <<EmailAction(b)>> ELSE <<>>)
  \o (IF includes(lowerMessage, KwTask) THEN <<TaskAction(b)>> ELSE <<>>)
  \o (IF includes(lowerMessage, KwSlack) THEN <<SlackAction(b)>> ELSE <<>>)

\* ------------------------------------------------------------ model router
NoValue == "<undefined>"      \* a field absent from the request body

MODEL_MAPPINGS ==
  [gpt |-> "openai/gpt-4o",
   claude |-> "anthropic/claude-3.5-sonnet",
   llama |-> "meta-llama/llama-3.1-70b-instruct"]

\* Object.keys(MODEL_MAPPINGS), in insertion order
AVAILABLE_MODELS == <<"gpt", "claude", "llama">>

\* the table local to SimpleOpenRouterService.chat / SafeOpenRouterService.chat
modelMapping ==
  [gpt |-> "openai/gpt-4o",
   claude |-> "anthropic/claude-3.5-sonnet",
   llama |-> "meta-llama/llama-3.1-70b-instruct",
   auto |-> "openai/gpt-4o"]

MaxTokens == 1000
TemperatureTenths == 7        \* temperature 0.7, in tenths

Builds == {"routes", "safeRoutes", "dist", "simple", "safe"}
RoutesBuilds == {"routes", "safeRoutes", "dist"}     \* use OpenRouterService
IndexBuilds == {"simple", "safe"}                    \* use a service local to index.ts

\* mutant: a system message is sent ahead of the user's message
RequestBody_withSystem(providerModel, text) ==
  [model |-> providerModel,
   messages |-> <<[role |-> "system", content |-> <<>>],
                  [role |-> "user", content |-> text]>>,
   max_tokens |-> MaxTokens,
   temperature |-> TemperatureTenths]

\* JSON.stringify body of the fetch to /chat/completions
RequestBody(providerModel, text) ==
  [model |-> providerModel,
   messages |-> <<[role |-> "user", content |-> text]>>,
   max_tokens |-> MaxTokens,
   temperature |-> TemperatureTenths]

\* mutant: the random index is drawn whatever model was asked for
SelectModel_alwaysRandom(model, randomIndex) == AVAILABLE_MODELS[randomIndex + 1]

\* OpenRouterService.chat: selectedModel after the 'auto' branch;
\* randomIndex = Math.floor(Math.random() * AVAILABLE_MODELS.length)
SelectModel(model, randomIndex) ==
  IF model = "auto" THEN AVAILABLE_MODELS[randomIndex + 1] ELSE model

\* how many times Math.random() is called for one chat
RandomDraws(build, model) ==
  IF build \in RoutesBuilds /\ model = "auto" THEN 1 ELSE 0

\* property names every object literal inherits from Object.prototype with a
\* function as value
PrototypeFunctions ==
  {"constructor", "toString", "valueOf", "hasOwnProperty", "isPrototypeOf",
   "propertyIsEnumerable", "toLocaleString",
   "__defineGetter__", "__defineSetter__", "__lookupGetter__", "__lookupSetter__"}

\* modelMapping[model] || modelMapping['auto'], as JSON.stringify writes it in
\* the body: the lookup goes through the prototype chain, an inherited function
\* is truthy and is dropped from the JSON text (the model field is absent),
\* '__proto__' gives Object.prototype, written {}
LookupOrDefault(model) ==
  IF model \in DOMAIN modelMapping THEN modelMapping[model]
  ELSE IF model \in PrototypeFunctions THEN NoValue
  ELSE IF model = "__proto__" THEN "{}"
  ELSE modelMapping["auto"]

\* What the upstream dependency can answer to one fetch.
\*   fetch    "reject"  : transport failure, the promise rejects
\*   ok       response.ok (2xx status)
\*   json     "unread" : the body is not read yet; "invalid" :
\*            response.json() rejects; "noChoices": an object
\*            without a choices field; "object": choices is a list
\*   choices  the message.content of each completion ("" = empty or absent)
UpstreamResults ==
  { [fetch |-> "reject",  ok |-> FALSE, status |-> 0,   json |-> "invalid",   choices |-> <<>>],
    [fetch |-> "resolve", ok |-> FALSE, status |-> 500, json |-> "invalid",   choices |-> <<>>],
    [fetch |-> "resolve", ok |-> TRUE,  status |-> 200, json |-> "invalid",   choices |-> <<>>],
    [fetch |-> "resolve", ok |-> TRUE,  status |-> 200, json |-> "noChoices", choices |-> <<>>],
    [fetch |-> "resolve", ok |-> TRUE,  status |-> 200, json |-> "object",    choices |-> <<>>],
    [fetch |-> "resolve", ok |-> TRUE,  status |-> 200, json |-> "object",    choices |-> <<"">>],
    [fetch |-> "resolve", ok |-> TRUE,  status |-> 200, json |-> "object",    choices |-> <<"pong">>] }

NoResult == [fetch |-> "none", ok |-> FALSE, status |-> 0, json |-> "invalid", choices |-> <<>>]

Placeholder == "No response generated"

\* mutant: the first completion's text is returned as it is
ExtractContent_noPlaceholder(choices) ==
  IF choices = <<>> THEN "" ELSE choices[1]

\* data.choices[0]?.message?.content || 'No response generated'
ExtractContent(choices) ==
  IF choices = <<>> \/ choices[1] = "" THEN Placeholder ELSE choices[1]

\* The cause string of a failed upstream exchange, as the service's try block
\* throws it; "" when the exchange yields a content for this build.
UpstreamCause(build, res) ==
  IF res.fetch = "reject" THEN "fetch failed"
  ELSE IF ~res.ok THEN
    IF build \in RoutesBuilds
    THEN "OpenRouter API error: " \o ToString(res.status) \o " - upstream error"
    ELSE "API error: " \o ToString(res.status)
  ELSE IF res.json = "invalid" THEN "Unexpected token < in JSON at position 0"
  ELSE IF res.json = "noChoices" /\ build \in RoutesBuilds
    \* data.choices[0] on an undefined choices: TypeError; index.ts uses data.choices?.[0]
    THEN "Cannot read properties of undefined (reading '0')"
  ELSE ""

\* Outcome of a service's chat(): threw, or {content, modelUsed}
Returned(content, modelUsed) ==
  [threw |-> FALSE, content |-> content, modelUsed |-> modelUsed, error |-> ""]
Threw(error) ==
  [threw |-> TRUE, content |-> "", modelUsed |-> "", error |-> error]

\* The service the build holds when the credential is absent (the stand-in of
\* registerRoutes, or the early return of the index.ts services).
DegradedChat(build) ==
  CASE build = "safeRoutes" ->
         Returned("Service temporarily unavailable. Please check your API configuration. Error: OpenRouter API key is required. Please check your environment variables.",
                  "fallback")
    [] build = "dist" ->
         Returned("Service temporarily unavailable. Please check your API configuration.", "error")
    [] build = "simple" ->
         Returned("API key not configured. Please check your environment variables.", "error")
    [] build = "safe" ->
         Returned("AI service is currently unavailable. Please check your configuration.", "fallback")

\* chat() from the point where fetch has settled with res
ChatAfterFetch(build, model, selectedModel, res) ==
  LET cause == UpstreamCause(build, res) IN
  IF cause # "" THEN
    CASE build \in RoutesBuilds -> Threw("Failed to get AI response: " \o cause)
      [] build = "simple" -> Returned("Error: " \o cause, model)
      [] build = "safe" ->
           Returned("AI service error: " \o cause \o ". Using fallback response.", "fallback")
  ELSE
    Returned(ExtractContent(res.choices),
             IF build \in RoutesBuilds THEN selectedModel ELSE model)

\* chat() in a runtime without a global fetch: the reference to fetch throws
\* inside the try block; SafeOpenRouterService tests typeof fetch first
NoFetchChat(build, model) ==
  CASE build \in RoutesBuilds -> Threw("Failed to get AI response: fetch is not defined")
    [] build = "simple" -> Returned("Error: fetch is not defined", model)
    [] build = "safe" -> Returned("Fetch API not available in this environment.", "fallback")

\* after the fetch has resolved chat() awaits the body: response.json(), or
\* response.text() of a non-2xx answer in OpenRouterService; the index.ts
\* services throw on a non-2xx status without reading it
AwaitsBody(build, res) ==
  res.fetch = "resolve" /\ (res.ok \/ build \in RoutesBuilds)

\* what chat() knows of the exchange res once the fetch has resolved: the
\* status line; the body is not read yet
ResponseHead(res) ==
  [res EXCEPT !.json = "unread", !.choices = <<>>]

\* mutant: a failed exchange is tried once more
ShouldRetry_once(build, res, attempts) ==
  attempts < 2 /\ UpstreamCause(build, res) # ""

\* chat() after a fetch has settled with res, attempts fetches issued so far:
\* does it issue another fetch?  No build does: the catch block rethrows or
\* returns, and no loop encloses the fetch.
ShouldRetry(build, res, attempts) == FALSE

\* --------------------------------------------------------- request handler
ValidModels == {"auto", "gpt", "claude", "llama"}

\* req.body.message: absent, a string, or a JSON value that is not a string
\* (a non-zero number stands for these: truthy, and without a trim method)
Undefined == [kind |-> "undefined", text |-> <<>>]
Str(text) == [kind |-> "string", text |-> text]
NonString == [kind |-> "number", text |-> <<>>]

Messages ==
  { Undefined, NonString, Str(<<>>), Str(<<" ", "\f">>),
    Str(<<"h","i">>),
    Str(<<"S","l","a","c","k"," ","E","M","A","I","L">>) }

\* req.body.model: absent, the four names of the page, an unknown name, and a
\* name every object inherits
Models == {NoValue, "auto", "gpt", "claude", "llama", "gpt5", "constructor"}

\* mutant: the model is checked before the message
Validate_modelFirst(build, message, model) ==
  IF build \in RoutesBuilds
     /\ (model = NoValue \/ model = "" \/ model \notin ValidModels) THEN "model"
  ELSE IF message.kind = "undefined" THEN "message"
  ELSE IF message.kind = "string" /\ message.text = <<>> THEN "message"
  ELSE IF message.kind # "string" THEN "throw"
  ELSE IF trim(message.text) = <<>> THEN "message"
  ELSE "ok"

\* mutant: a whitespace-only message passes (the trim test is left out)
Validate_noTrim(build, message, model) ==
  IF message.kind = "undefined" THEN "message"
  ELSE IF message.kind = "string" /\ message.text = <<>> THEN "message"
  ELSE IF message.kind # "string" THEN "throw"
  ELSE IF build \in RoutesBuilds
          /\ (model = NoValue \/ model = "" \/ model \notin ValidModels) THEN "model"
  ELSE "ok"

\* The checks at the head of the POST /api/chat handler:
\*   "message"  400 'Message is required'
\*   "model"    400 'Valid model selection is required' (routes.ts builds only)
\*   "throw"    message.trim is not a function: TypeError inside the try block
\*   "ok"       the service's chat is called
Validate(build, message, model) ==
  IF message.kind = "undefined" THEN "message"
  ELSE IF message.kind = "string" /\ message.text = <<>> THEN "message"
  ELSE IF message.kind # "string" THEN "throw"
  ELSE IF trim(message.text) = <<>> THEN "message"
  ELSE IF build \in RoutesBuilds
          /\ (model = NoValue \/ model = "" \/ model \notin ValidModels) THEN "model"
  ELSE "ok"

\* the model argument the handler passes to chat(): model, or model || 'auto'
ChatModelArg(build, model) ==
  IF build \in IndexBuilds /\ (model = NoValue \/ model = "") THEN "auto" ELSE model

ErrorResponse(status, error) ==
  [status |-> status, kind |-> "error", error |-> error,
   id |-> "", content |-> "", model |-> "", automations |-> <<>>]

Envelope(id, content, model, automations) ==
  [status |-> 200, kind |-> "envelope", error |-> "",
   id |-> id, content |-> content, model |-> model, automations |-> automations]

\* randomUUID() in the routes.ts builds (the n-th identifier the process draws;
\* version-4 UUIDs are taken to be fresh), Date.now().toString() in index.ts
UsesUuid(build) == build \in RoutesBuilds

NewId(build, clock, drawn) ==
  IF UsesUuid(build) THEN "uuid-" \o ToString(drawn + 1) ELSE ToString(clock)

\* mutant: the actions are dropped when gpt answered
HandlerAutomations_byModel(build, message, content, modelUsed) ==
  IF modelUsed = "gpt" THEN <<>> ELSE detectAutomations(build, message.text)

\* the automations the handler puts in the envelope after chat() returned
HandlerAutomations(build, message, content, modelUsed) ==
  detectAutomations(build, message.text)

\* the handler's catch block
HandlerCatch(build, error, clock) ==
  CASE build \in RoutesBuilds -> ErrorResponse(500, error)
    [] build = "simple" -> ErrorResponse(500, "Internal server error")
    [] build = "safe" ->
         Envelope(ToString(clock),
                  "Sorry, the AI service is temporarily unavailable. Please try again later.",
                  "fallback", <<>>)

\* mutant: once an identifier has been drawn, the placeholder is served
HandlerAfterChat_staleAfterFirst(build, message, outcome, clock, drawn) ==
  IF outcome.threw THEN HandlerCatch(build, outcome.error, clock)
  ELSE Envelope(NewId(build, clock, drawn),
                IF drawn > 0 THEN Placeholder ELSE outcome.content,
                outcome.modelUsed,
                HandlerAutomations(build, message, outcome.content, outcome.modelUsed))

\* the handler from the point where chat() has settled with outcome
HandlerAfterChat(build, message, outcome, clock, drawn) ==
  IF outcome.threw THEN HandlerCatch(build, outcome.error, clock)
  ELSE Envelope(NewId(build, clock, drawn), outcome.content, outcome.modelUsed,
                HandlerAutomations(build, message, outcome.content, outcome.modelUsed))

\* mutant: no try block around the handler body, a throw escapes it
HandlerEscapes_noTry(build, threw) == threw

\* Does an exception thrown in the handler body (by chat(), or by message.trim)
\* leave the handler as a rejected promise?  The whole body is inside
\* try { } catch { }, in every build.
HandlerEscapes(build, threw) == FALSE

\* GET /api/health: openRouterAvailable is "true", "false", or "absent" when
\* the body has no such field
HealthResponse(build, key) ==
  [status |-> "ok",
   openRouterAvailable |->
     CASE build = "routes" -> "absent"
       [] build \in {"safeRoutes", "dist"} -> "true"
       [] build \in IndexBuilds -> IF key THEN "true" ELSE "false"]

NoHealth == [status |-> "none", openRouterAvailable |-> "absent"]

\* What the process answers to a request no route takes (POST /api/chat when
\* the chat route was never registered): the page, sent by the catch-all of
\* setupVite / serveStatic
HtmlPage ==
  [status |-> 200, kind |-> "html", error |-> "",
   id |-> "", content |-> "", model |-> "", automations |-> <<>>]

\* Express' final handler: no middleware took the request, or sendFile passed
\* on an error of status 404 (index.html is missing)
NotFoundPage ==
  [status |-> 404, kind |-> "html", error |-> "",
   id |-> "", content |-> "", model |-> "", automations |-> <<>>]

\* Express' final handler after next(e) with an error without a status: the
\* error middleware is registered ahead of the catch-all and is not reached
ServerErrorPage ==
  [status |-> 500, kind |-> "html", error |-> "",
   id |-> "", content |-> "", model |-> "", automations |-> <<>>]

\* the catch-all a process can have mounted: none (setupVite / serveStatic
\* threw and the bootstrap went on), that of setupVite (development), that of
\* serveStatic (production)
CatchAlls == {"none", "setupVite", "serveStatic"}

\* how the reading and sending of the page ends: "sent"; "missing":
\* index.html does not exist; "failed": any other error (readFile,
\* transformIndexHtml, sendFile)
PageOutcomes == {"sent", "missing", "failed"}

\* the answer of the catch-all mounted by `mounted` once the page's reading
\* has ended with outcome
UnroutedResponse(mounted, outcome) ==
  CASE mounted = "none" -> NotFoundPage
    [] outcome = "sent" -> HtmlPage
    [] mounted = "serveStatic" /\ outcome = "missing" -> NotFoundPage
    [] OTHER -> ServerErrorPage

\* GET /api/health answered like any unrouted request: what the caller gets
\* is no health report
UnroutedHealth(mounted, outcome) ==
  [status |-> CASE UnroutedResponse(mounted, outcome).status = 200 -> "page"
                [] UnroutedResponse(mounted, outcome).status = 404 -> "notFound"
                [] OTHER -> "serverError",
   openRouterAvailable |-> "absent"]

\* GET /api/health has reached the catch-all, which is reading the page
HealthPending == [status |-> "pending", openRouterAvailable |-> "absent"]

\* The service object registerRoutes / the module holds after construction:
\* "operational" with the credential; without it the stand-in ("degraded"), or
\* no service at all where the constructor's throw is not caught.
ServiceAtConstruction(b, key) ==
  IF key THEN "operational"
  ELSE IF b = "routes" THEN "none"
  ELSE "degraded"

\* mutant: a failed exchange swaps the stand-in in for the later requests
ServiceAfterChat_tripOnFailure(current, threw) ==
  IF threw THEN "degraded" ELSE current

\* the service object held after a chat() has settled: no build assigns
\* openRouterService / aiService / apiKey / isAvailable after construction
ServiceAfterChat(current, threw) == current

\* mutant: chat() memoises the provider model under the requested identifier
MappingAfterChat_memoRequested(table, model, providerModel) ==
  [m \in DOMAIN table \cup {model} |-> IF m = model THEN providerModel ELSE table[m]]

\* the mapping table after a chat() has read it: the table is only indexed
MappingAfterChat(table, model, providerModel) == table

\* the table a build's chat() consults
MappingAtConstruction(b) ==
  IF b \in RoutesBuilds THEN MODEL_MAPPINGS ELSE modelMapping

\* ------------------------------------------------------------------- state
VARIABLES
  build,        \* which build of the server runs
  apiKey,       \* OPENROUTER_API_KEY was set when the service was constructed
  fetchAvailable, \* the runtime has a global fetch
  catchAll,     \* the catch-all mounted at start-up, one of CatchAlls
  now,          \* Date.now()
  uuids,        \* identifiers randomUUID() has drawn
  pc,           \* per request: "idle", "awaiting" (suspended on fetch), "page"
                \*   (suspended in the catch-all), "done"
  reqMessage,   \* per request: req.body.message
  reqModel,     \* per request: req.body.model
  selected,     \* per request: selectedModel of OpenRouterService.chat
  draws,        \* per request: calls of Math.random()
  upstream,     \* per request: the bodies of the fetches issued, in order
  result,       \* per request: what the fetch settled with
  detectCalls,  \* per request: runs of the automation detector
  responses,    \* per request: the responses sent, in order
  chat,         \* per request: the service's chat(): "none" (not called),
                \*   "pending", "returned", "threw"
  crashed,      \* a rejection left a handler unhandled: the process is gone
  health,       \* the last answer of GET /api/health
  mapping,      \* the logical-to-provider table chat() consults
  service,      \* the service object held: "operational", "degraded", "none"
  dMsg,         \* detector harness: the message handed to detectAutomations
  dRan,         \* detector harness: detectAutomations has returned
  dOut          \* detector harness: what it returned

serverVars == <<build, apiKey, fetchAvailable, catchAll, now, uuids, pc, reqMessage, reqModel, selected, draws,
                upstream, result, detectCalls, responses, chat, crashed, health,
                mapping, service>>
detVars == <<dMsg, dRan, dOut>>

\* The page (Home component) of the client.
VARIABLES
  client,       \* which revision of the page runs
  cMessage,     \* useState message: the text in the message box
  cSelected,    \* useState selectedModel
  cResponses,   \* useState responses: the displayed list, first element on top
  cInflight,    \* the POST /api/chat requests started and not yet settled
  cSent,        \* how many requests chatMutation.mutate has started
  cEvent        \* the last thing that happened on the page

clientVars == <<client, cMessage, cSelected, cResponses, cInflight, cSent, cEvent>>
vars == <<serverVars, detVars, clientVars>>

\* the page as first rendered
ClientIdle ==
  /\ cMessage = <<>>
  /\ cSelected = "auto"
  /\ cResponses = <<>>
  /\ cInflight = {}
  /\ cSent = 0
  /\ cEvent = "rendered"

\* routes.ts constructs OpenRouterService outside any try block: without the
\* credential registerRoutes rejects and the chat route is never registered.
Serving == ~(build = "routes" /\ ~apiKey)

ServerIdle ==
  /\ now = 0
  /\ uuids = 0
  /\ pc = [r \in Requests |-> "idle"]
  /\ reqMessage = [r \in Requests |-> Undefined]
  /\ reqModel = [r \in Requests |-> NoValue]
  /\ selected = [r \in Requests |-> NoValue]
  /\ draws = [r \in Requests |-> 0]
  /\ upstream = [r \in Requests |-> <<>>]
  /\ result = [r \in Requests |-> NoResult]
  /\ detectCalls = [r \in Requests |-> 0]
  /\ responses = [r \in Requests |-> <<>>]
  /\ chat = [r \in Requests |-> "none"]
  /\ crashed = FALSE
  /\ health = NoHealth

Init ==
  /\ build \in Builds
  /\ apiKey \in BOOLEAN
  /\ fetchAvailable \in BOOLEAN
  \* the catch-all is mounted after the API routes: it sees a chat or health
  \* request only when these routes are missing
  /\ catchAll \in (IF Serving THEN {"serveStatic"} ELSE CatchAlls)
  /\ ServerIdle
  /\ mapping = MappingAtConstruction(build)
  /\ service = ServiceAtConstruction(build, apiKey)
  /\ client = "home"
  /\ ClientIdle
  /\ dMsg = <<>>
  /\ dRan = FALSE
  /\ dOut = <<>>

\* The handler of request r ends.  chatEnd is where chat() ended ("none" when
\* it was not called); after "returned" the detection and the id generation
\* ran.  threw: the body threw; the catch block then sent resp, unless the
\* exception escaped the handler.
Send(r, resp, chatEnd, threw) ==
  LET escapes == HandlerEscapes(build, threw) IN
  /\ responses' = [responses EXCEPT ![r] = IF escapes THEN @ ELSE Append(@, resp)]
  /\ crashed' = (crashed \/ escapes)
  /\ chat' = [chat EXCEPT ![r] = chatEnd]
  /\ detectCalls' = [detectCalls EXCEPT ![r] = IF chatEnd = "returned" THEN @ + 1 ELSE @]
  /\ uuids' = IF chatEnd = "returned" /\ UsesUuid(build) THEN uuids + 1 ELSE uuids
  /\ pc' = [pc EXCEPT ![r] = "done"]

\* POST /api/chat arrives: the handler runs up to its response, or up to the
\* fetch inside chat(), its first suspension point.
Submit(r, message, model, randomIndex) ==
  /\ Serving
  /\ ~crashed
  /\ pc[r] = "idle"
  /\ reqMessage' = [reqMessage EXCEPT ![r] = message]
  /\ reqModel' = [reqModel EXCEPT ![r] = model]
  /\ LET v == Validate(build, message, model)
         arg == ChatModelArg(build, model)
         sel == SelectModel(arg, randomIndex)
     IN
     IF v = "message" THEN
       /\ Send(r, ErrorResponse(400, "Message is required"), "none", FALSE)
       /\ UNCHANGED <<selected, draws, upstream, mapping>>
     ELSE IF v = "model" THEN
       /\ Send(r, ErrorResponse(400, "Valid model selection is required"), "none", FALSE)
       /\ UNCHANGED <<selected, draws, upstream, mapping>>
     ELSE IF v = "throw" THEN
       /\ Send(r, HandlerCatch(build, "message.trim is not a function", now), "none", TRUE)
       /\ UNCHANGED <<selected, draws, upstream, mapping>>
     ELSE IF service = "degraded" THEN
       /\ Send(r, HandlerAfterChat(build, message, DegradedChat(build), now, uuids),
               "returned", FALSE)
       /\ UNCHANGED <<selected, draws, upstream, mapping>>
     ELSE IF build \in RoutesBuilds THEN
       /\ selected' = [selected EXCEPT ![r] = sel]
       /\ draws' = [draws EXCEPT ![r] = RandomDraws(build, arg)]
       /\ IF sel \notin DOMAIN mapping
          THEN /\ Send(r, HandlerAfterChat(build, message,
                            Threw("Failed to get AI response: Unsupported model: " \o sel),
                            now, uuids), "threw", TRUE)
               /\ UNCHANGED <<upstream, mapping>>
          ELSE IF ~fetchAvailable
          THEN /\ Send(r, HandlerAfterChat(build, message, NoFetchChat(build, arg),
                                           now, uuids), "threw", TRUE)
               /\ mapping' = MappingAfterChat(mapping, arg, mapping[sel])
               /\ UNCHANGED upstream
          ELSE /\ upstream' = [upstream EXCEPT ![r] =
                                 Append(@, RequestBody(mapping[sel], message.text))]
               /\ mapping' = MappingAfterChat(mapping, arg, mapping[sel])
               /\ pc' = [pc EXCEPT ![r] = "awaiting"]
               /\ chat' = [chat EXCEPT ![r] = "pending"]
               /\ UNCHANGED <<uuids, detectCalls, responses, crashed>>
     ELSE IF ~fetchAvailable THEN
       /\ Send(r, HandlerAfterChat(build, message, NoFetchChat(build, arg), now, uuids),
               "returned", FALSE)
       /\ mapping' = MappingAfterChat(mapping, arg, LookupOrDefault(arg))
       /\ UNCHANGED <<selected, draws, upstream>>
     ELSE
       /\ upstream' = [upstream EXCEPT ![r] =
                         Append(@, RequestBody(LookupOrDefault(arg), message.text))]
       /\ mapping' = MappingAfterChat(mapping, arg, LookupOrDefault(arg))
       /\ pc' = [pc EXCEPT ![r] = "awaiting"]
       /\ chat' = [chat EXCEPT ![r] = "pending"]
       /\ UNCHANGED <<selected, draws, uuids, detectCalls, responses, crashed>>
  /\ UNCHANGED <<build, apiKey, fetchAvailable, catchAll, now, result, health, service, detVars, clientVars>>

\* POST /api/chat arrives at a process whose registerRoutes failed: no chat
\* handler runs.  Without a catch-all Express answers at once; otherwise the
\* catch-all takes the request and suspends on the reading of the page.
SubmitUnrouted(r, message, model) ==
  /\ ~Serving
  /\ ~crashed
  /\ pc[r] = "idle"
  /\ reqMessage' = [reqMessage EXCEPT ![r] = message]
  /\ reqModel' = [reqModel EXCEPT ![r] = model]
  /\ IF catchAll = "none"
     THEN /\ responses' = [responses EXCEPT ![r] = Append(@, UnroutedResponse(catchAll, "sent"))]
          /\ pc' = [pc EXCEPT ![r] = "done"]
     ELSE /\ pc' = [pc EXCEPT ![r] = "page"]
          /\ UNCHANGED responses
  /\ UNCHANGED <<build, apiKey, fetchAvailable, catchAll, now, uuids, selected, draws, upstream, result,
                 detectCalls, chat, crashed, health, mapping, service, detVars, clientVars>>

\* the catch-all's reading of the page for request r ends with outcome: it
\* sends the page, or passes the error on and Express answers
PageSent(r, outcome) ==
  /\ ~crashed
  /\ pc[r] = "page"
  /\ responses' = [responses EXCEPT ![r] = Append(@, UnroutedResponse(catchAll, outcome))]
  /\ pc' = [pc EXCEPT ![r] = "done"]
  /\ UNCHANGED <<build, apiKey, fetchAvailable, catchAll, now, uuids, reqMessage, reqModel, selected,
                 draws, upstream, result, detectCalls, chat, crashed, health, mapping,
                 service, detVars, clientVars>>

\* mutant: the requests' fetches are awaited one after the other
Resumable_serial(r) ==
  pc[r] = "awaiting" /\ \A q \in Requests : q < r => pc[q] # "awaiting"

\* the handler of request r is suspended on its own fetch and resumes as soon
\* as that fetch settles, whatever the other requests are waiting for
Resumable(r) == pc[r] = "awaiting"

\* chat() of request r leaves its last await with the exchange res, and the
\* handler runs to its response (the id and the clock are read here)
ChatEnds(r, res) ==
  IF ShouldRetry(build, res, Len(upstream[r]))
  THEN /\ upstream' = [upstream EXCEPT ![r] = Append(@, @[1])]
       /\ result' = [result EXCEPT ![r] = NoResult]
       /\ UNCHANGED <<pc, chat, crashed, responses, detectCalls, uuids, service>>
  ELSE /\ result' = [result EXCEPT ![r] = res]
       /\ LET outcome == ChatAfterFetch(build, ChatModelArg(build, reqModel[r]),
                                        selected[r], res)
          IN /\ Send(r, HandlerAfterChat(build, reqMessage[r], outcome, now, uuids),
                     IF outcome.threw THEN "threw" ELSE "returned", outcome.threw)
             /\ service' = ServiceAfterChat(service, UpstreamCause(build, res) # "")
       /\ UNCHANGED upstream

\* the fetch of request r settles with res: chat() goes on to await the body,
\* or, after a rejection (in the index.ts services also a non-2xx status), runs
\* with the handler to the end
UpstreamReply(r, res) ==
  /\ ~crashed
  /\ Resumable(r)
  /\ result[r] = NoResult
  /\ IF AwaitsBody(build, res)
     THEN /\ result' = [result EXCEPT ![r] = ResponseHead(res)]
          /\ UNCHANGED <<upstream, pc, chat, crashed, responses, detectCalls, uuids, service>>
     ELSE ChatEnds(r, res)
  /\ UNCHANGED <<build, apiKey, fetchAvailable, catchAll, now, reqMessage, reqModel, selected, draws,
                 health, mapping, detVars, clientVars>>

\* the body of the answer to request r has been read (or has failed to
\* parse): the exchange is res, whose status line the fetch delivered
BodyRead(r, res) ==
  /\ ~crashed
  /\ Resumable(r)
  /\ result[r] # NoResult
  /\ result[r] = ResponseHead(res)
  /\ ChatEnds(r, res)
  /\ UNCHANGED <<build, apiKey, fetchAvailable, catchAll, now, reqMessage, reqModel, selected, draws,
                 health, mapping, detVars, clientVars>>

\* a millisecond passes
Tick ==
  /\ now < MaxClock
  /\ now' = now + 1
  /\ UNCHANGED <<build, apiKey, fetchAvailable, catchAll, uuids, pc, reqMessage, reqModel, selected, draws,
                 upstream, result, detectCalls, responses, chat, crashed, health,
                 mapping, service, detVars, clientVars>>

Next ==
  \/ \E r \in Requests, message \in Messages, model \in Models, randomIndex \in 0..2 :
       Submit(r, message, model, randomIndex)
  \/ \E r \in Requests, message \in Messages, model \in Models :
       SubmitUnrouted(r, message, model)
  \/ \E r \in Requests, outcome \in PageOutcomes : PageSent(r, outcome)
  \/ \E r \in Requests, res \in UpstreamResults : UpstreamReply(r, res)
  \/ \E r \in Requests, res \in UpstreamResults : BodyRead(r, res)
  \/ Tick

Spec == Init /\ [][Next]_vars

\* Every fetch settles: the upstream dependency answers or the transport fails
\* (the premise of the claims about requests whose upstream call completes).
UpstreamSettles ==
  \A r \in Requests :
    WF_vars(\E res \in UpstreamResults : UpstreamReply(r, res) \/ BodyRead(r, res))

\* Every reading of the page by the catch-all ends: the file system answers
\* or reports an error.
PageSettles ==
  \A r \in Requests : WF_vars(\E outcome \in PageOutcomes : PageSent(r, outcome))

SpecLive == Spec /\ UpstreamSettles /\ PageSettles

\* GET /api/health: answers from the service object and the environment
Health ==
  /\ ~crashed
  /\ Serving
  /\ health' = HealthResponse(build, apiKey)
  /\ UNCHANGED <<build, apiKey, fetchAvailable, catchAll, now, uuids, pc, reqMessage, reqModel, selected, draws,
                 upstream, result, detectCalls, responses, chat, crashed,
                 mapping, service, detVars, clientVars>>

\* GET /api/health arrives at a process whose registerRoutes failed: the
\* health route is missing like the chat route; Express answers at once or
\* the catch-all starts reading the page
HealthUnrouted ==
  /\ ~crashed
  /\ ~Serving
  /\ health # HealthPending
  /\ health' = IF catchAll = "none" THEN UnroutedHealth(catchAll, "sent") ELSE HealthPending
  /\ UNCHANGED <<build, apiKey, fetchAvailable, catchAll, now, uuids, pc, reqMessage, reqModel, selected, draws,
                 upstream, result, detectCalls, responses, chat, crashed,
                 mapping, service, detVars, clientVars>>

\* the catch-all's reading of the page for the health request ends
HealthPageSent(outcome) ==
  /\ ~crashed
  /\ health = HealthPending
  /\ health' = UnroutedHealth(catchAll, outcome)
  /\ UNCHANGED <<build, apiKey, fetchAvailable, catchAll, now, uuids, pc, reqMessage, reqModel, selected, draws,
                 upstream, result, detectCalls, responses, chat, crashed,
                 mapping, service, detVars, clientVars>>

NextHealth ==
  \/ Next
  \/ Health
  \/ HealthUnrouted
  \/ \E outcome \in PageOutcomes : HealthPageSent(outcome)

\* the chat requests together with health checks
SpecHealth == Init /\ [][NextHealth]_vars

\* ------------------------------------------------------- detector harness
\* detectAutomations on its own, over every concatenation of at most MaxFrags
\* fragments: keywords whole, in capitals, split across fragments, repeated.
Fragments ==
  { <<"e","m","a","i","l">>, <<"E","m">>, <<"A","I","L">>,
    <<"t","a","s","k">>, <<"T","a">>, <<"s","K">>,
    <<"s","l","a","c","k">>, <<"S","L">>, <<"a","c","k">>,
    <<"t","a","s","U+212A">>, <<"U+00C9","M","A","U+0130","L">>,
    <<" ">>, <<"x">> }

RECURSIVE Concats(_)
Concats(n) ==
  IF n = 0 THEN {<<>>}
  ELSE LET shorter == Concats(n - 1)
       IN shorter \cup {p \o f : p \in shorter, f \in Fragments}

DetectInputs == Concats(MaxFrags)

InitDetect ==
  /\ build \in Builds
  /\ apiKey = TRUE
  /\ fetchAvailable = TRUE
  /\ catchAll = "serveStatic"
  /\ ServerIdle
  /\ mapping = MappingAtConstruction(build)
  /\ service = ServiceAtConstruction(build, apiKey)
  /\ client = "home"
  /\ ClientIdle
  /\ dMsg \in DetectInputs
  /\ dRan = FALSE
  /\ dOut = <<>>

Detect ==
  /\ ~dRan
  /\ dOut' = detectAutomations(build, dMsg)
  /\ dRan' = TRUE
  /\ UNCHANGED <<dMsg, serverVars, clientVars>>

NextDetect == Detect

SpecDetect == InitDetect /\ [][NextDetect]_vars

\* ------------------------------------------------------------ client page
MaxSent == 3

\* what the user can have in the message box
TypedTexts == { <<>>, <<" ">>, <<"h","i">>, <<"h","i"," ">> }

\* the revisions of the page: pages/home.tsx, and src/unnamed/part_002 whose
\* message box also submits on Enter
Clients == {"home", "part_002"}

\* How a request can settle for the page.  A 2xx answer with a JSON body:
\*   "envelope"       id, content, model, automations, as the server sends it
\*   "noContent"      an envelope whose content is empty
\*   "noAutomations"  id, content and model, no automations
\*   "contentOnly"    an object with a content and nothing else
\*   "emptyObject"    an object without these fields ({} or [])
\*   "nonObject"      a value that is no object (a string, a number, null)
\* or "error": a transport failure, a non-2xx status, a body that is not JSON
\* (the HTML page).
ClientReplies ==
  {"envelope", "noContent", "noAutomations", "contentOnly", "emptyObject",
   "nonObject", "error"}

\* the JSON data response.json() gives for request q; NoValue: the value has
\* no such property
ResponseFor(q, reply) ==
  CASE reply = "envelope" ->
         [type |-> "object", id |-> "r" \o ToString(q.n), content |-> "pong",
          model |-> q.model, automations |-> <<>>]
    [] reply = "noContent" ->
         [type |-> "object", id |-> "r" \o ToString(q.n), content |-> "",
          model |-> q.model, automations |-> <<>>]
    [] reply = "noAutomations" ->
         [type |-> "object", id |-> "r" \o ToString(q.n), content |-> "pong",
          model |-> q.model, automations |-> NoValue]
    [] reply = "contentOnly" ->
         [type |-> "object", id |-> NoValue, content |-> "pong",
          model |-> NoValue, automations |-> NoValue]
    [] reply = "emptyObject" ->
         [type |-> "object", id |-> NoValue, content |-> NoValue,
          model |-> NoValue, automations |-> NoValue]
    [] reply = "nonObject" ->
         [type |-> "string", id |-> NoValue, content |-> NoValue,
          model |-> NoValue, automations |-> NoValue]

\* the mutation function resolves with the data: home.tsx returns
\* response.json() as it is, part_002 throws 'Invalid response format' for a
\* value that is no object
MutationResolves(page, reply) ==
  /\ reply # "error"
  /\ (page = "part_002" => reply # "nonObject")

\* the page renders the list: each card reads response.model.toUpperCase()
\* and response.automations.length, which throw on a value without them
Renders(list) ==
  \A i \in 1..Len(list) :
    list[i].model # NoValue /\ list[i].automations # NoValue

\* the component is mounted; a throw while rendering unmounts the tree (no
\* error boundary encloses the page): nothing is displayed any more and the
\* user can act on nothing, while the requests still out go on to settle
Mounted == cEvent # "unmounted"

\* chatMutation.isPending: the mutation started last has not settled
IsPending == \E q \in cInflight : q.n = cSent

\* the disabled attribute of the submit button
ButtonDisabled(pending, message) == pending \/ trim(message) = <<>>

\* the key handler of the message box calls handleSubmit on Enter
\* (without Shift); pages/home.tsx has no key handler
EnterSubmits(page) == page = "part_002"

\* handleSubmit reaches chatMutation.mutate
SubmitAccepted(message, selectedModel) ==
  trim(message) # <<>> /\ selectedModel # ""

\* mutant: the new response is put at the end of the list
OnSuccess_append(page, response, list, message) ==
  IF page = "home" \/ response.content \notin {"", NoValue}
  THEN [responses |-> Append(list, response), message |-> <<>>, added |-> TRUE,
        threw |-> page = "home" /\ response.model = NoValue]
  ELSE [responses |-> list, message |-> message, added |-> FALSE, threw |-> FALSE]

\* onSuccess of chatMutation: the new list and message box.  home.tsx sets
\* both and then reads response.model.toUpperCase(), which throws when the
\* data has no model (threw); part_002 tests response.content first and
\* falls back to 'AI'
OnSuccess(page, response, list, message) ==
  IF page = "home" \/ response.content \notin {"", NoValue}
  THEN [responses |-> <<response>> \o list, message |-> <<>>, added |-> TRUE,
        threw |-> page = "home" /\ response.model = NoValue]
  ELSE [responses |-> list, message |-> message, added |-> FALSE, threw |-> FALSE]

\* the user edits the message box
TypeMessage(text) ==
  /\ Mounted
  /\ text # cMessage
  /\ cMessage' = text
  /\ cEvent' = "typed"
  /\ UNCHANGED <<client, cSelected, cResponses, cInflight, cSent, serverVars, detVars>>

\* the user picks a model in the select
ChooseModel(m) ==
  /\ Mounted
  /\ m # cSelected
  /\ cSelected' = m
  /\ cEvent' = "selected"
  /\ UNCHANGED <<client, cMessage, cResponses, cInflight, cSent, serverVars, detVars>>

\* handleSubmit: a toast for a blank message, otherwise chatMutation.mutate
\* starts a request with the trimmed message
HandleSubmit ==
  IF SubmitAccepted(cMessage, cSelected)
  THEN /\ cSent < MaxSent
       /\ cSent' = cSent + 1
       /\ cInflight' = cInflight \cup
            {[n |-> cSent + 1, message |-> trim(cMessage), model |-> cSelected]}
       /\ cEvent' = "sent"
       /\ UNCHANGED <<client, cMessage, cSelected, cResponses, serverVars, detVars>>
  ELSE /\ cEvent' = "rejected"
       /\ UNCHANGED <<client, cMessage, cSelected, cResponses, cInflight, cSent,
                      serverVars, detVars>>

\* the user clicks the submit button; a disabled button fires no handler
ClickSubmit ==
  /\ Mounted
  /\ IF ButtonDisabled(IsPending, cMessage)
     THEN /\ cEvent' = "ignored"
          /\ UNCHANGED <<client, cMessage, cSelected, cResponses, cInflight, cSent,
                         serverVars, detVars>>
     ELSE HandleSubmit

\* the user presses Enter in the message box
PressEnter ==
  /\ Mounted
  /\ EnterSubmits(client)
  /\ HandleSubmit

\* request q settles: mutationFn resumes whether or not the page is still
\* mounted.  On a mounted page onError runs, or onSuccess and then the page
\* renders again with the new state; when the new list cannot be rendered
\* the tree is unmounted (after onSuccess threw, onError has run before
\* that).  After the unmount the request is settled all the same, and the
\* set-calls of its callbacks change nothing that is displayed.
Settle(q, reply) ==
  /\ q \in cInflight
  /\ cInflight' = cInflight \ {q}
  /\ IF ~Mounted
     THEN UNCHANGED <<cResponses, cMessage, cEvent>>
     ELSE IF ~MutationResolves(client, reply)
     THEN /\ cEvent' = "failure"
          /\ UNCHANGED <<cResponses, cMessage>>
     ELSE LET after == OnSuccess(client, ResponseFor(q, reply), cResponses, cMessage) IN
          IF Renders(after.responses)
          THEN /\ cResponses' = after.responses
               /\ cMessage' = after.message
               /\ cEvent' = IF after.added THEN "success" ELSE "dropped"
          ELSE /\ cResponses' = <<>>
               /\ cMessage' = <<>>
               /\ cEvent' = "unmounted"
  /\ UNCHANGED <<client, cSelected, cSent, serverVars, detVars>>

InitClient ==
  /\ build = "routes"
  /\ apiKey = TRUE
  /\ fetchAvailable = TRUE
  /\ catchAll = "serveStatic"
  /\ ServerIdle
  /\ mapping = MappingAtConstruction(build)
  /\ service = ServiceAtConstruction(build, apiKey)
  /\ dMsg = <<>>
  /\ dRan = FALSE
  /\ dOut = <<>>
  /\ client \in Clients
  /\ ClientIdle

NextClient ==
  \/ \E text \in TypedTexts : TypeMessage(text)
  \/ \E m \in {"auto", "gpt"} : ChooseModel(m)
  \/ ClickSubmit
  \/ PressEnter
  \/ \E q \in cInflight, reply \in ClientReplies : Settle(q, reply)

SpecClient == InitClient /\ [][NextClient]_vars

\* ================================================================== claims
Concrete == {"gpt", "claude", "llama"}

Arrived(r) == pc[r] # "idle"
Answered(r) == pc[r] = "done"
EnvelopeOf(r) == Answered(r) /\ responses[r] # <<>> /\ responses[r][1].kind = "envelope"

\* the message is missing, empty or whitespace-only
BlankMessage(m) ==
  \/ m.kind = "undefined"
  \/ m.kind = "string" /\ \A i \in 1..Len(m.text) : IsWhiteSpace(m.text[i])

\* a request the specification's validation rejects
InvalidInput(m, mdl) == BlankMessage(m) \/ mdl \notin ValidModels

\* the upstream exchange failed: transport failure, non-2xx status, or a body
\* that is not JSON
UpstreamFailed(res) ==
  res.fetch = "reject" \/ (res.fetch = "resolve" /\ (~res.ok \/ res.json = "invalid"))

\* the upstream exchange delivered a well-formed list of completions
UpstreamSucceeded(res) == res.fetch = "resolve" /\ res.ok /\ res.json = "object"

\* C1: a request whose message is missing, empty or whitespace-only, or whose
\* model is missing or not one of auto, gpt, claude, llama, issues no upstream
\* call and, once handled, is answered by a rejection.
C1_InvalidRequestNeverReachesUpstream ==
  \A r \in Requests :
    Arrived(r) /\ InvalidInput(reqMessage[r], reqModel[r]) =>
      /\ upstream[r] = <<>>
      /\ Answered(r)
      /\ responses[r][1].kind = "error"

\* C2: for a valid model value, the model field of a success envelope returned
\* after a successful upstream exchange is one of gpt, claude, llama, never the
\* literal 'auto'.
C2_EnvelopeModelIsConcrete ==
  \A r \in Requests :
    /\ EnvelopeOf(r)
    /\ reqModel[r] \in ValidModels
    /\ UpstreamSucceeded(result[r])
    => responses[r][1].model \in Concrete

\* C3: every success envelope has a non-empty content; when the upstream reply
\* succeeds with the first completion's text absent or empty, the request is
\* answered by one success envelope whose content is the placeholder.
C3_ContentNonEmptyPlaceholder ==
  \A r \in Requests :
    /\ \A i \in 1..Len(responses[r]) :
         responses[r][i].kind = "envelope" => responses[r][i].content # ""
    /\ ( /\ Answered(r)
         /\ UpstreamSucceeded(result[r])
         /\ (result[r].choices = <<>> \/ result[r].choices[1] = "")
         => /\ Len(responses[r]) = 1
            /\ responses[r][1].kind = "envelope"
            /\ responses[r][1].status = 200
            /\ responses[r][1].content = "No response generated" )

C3_Witness ==
  \E r \in Requests :
    /\ Answered(r)
    /\ UpstreamSucceeded(result[r])
    /\ result[r].choices = <<"">>
    /\ responses[r][1].content = "No response generated"

\* C4: when the upstream call of an accepted request fails, the request gets
\* exactly one response, that response is an error and not a success envelope,
\* and the automation detector has not run for it.
C4_UpstreamFailureIsOneError ==
  \A r \in Requests :
    Answered(r) /\ UpstreamFailed(result[r]) =>
      /\ Len(responses[r]) = 1
      /\ responses[r][1].kind = "error"
      /\ detectCalls[r] = 0

\* C5: invalid or missing input is answered with a 4xx status, an upstream
\* failure with a 5xx status.
C5_StatusClassFollowsFault ==
  \A r \in Requests :
    Answered(r) =>
      /\ InvalidInput(reqMessage[r], reqModel[r]) =>
           responses[r][1].status \in 400..499
      /\ UpstreamFailed(result[r]) =>
           responses[r][1].status \in 500..599

\* C6: two success envelopes of the process never carry the same id.
C6_EnvelopeIdsDistinct ==
  \A r1, r2 \in Requests :
    r1 # r2 /\ EnvelopeOf(r1) /\ EnvelopeOf(r2) =>
      responses[r1][1].id # responses[r2][1].id

\* keyword k occurs in s at some position
Occurs(s, k) ==
  \E i \in 1..Len(s) :
    /\ i + Len(k) - 1 <= Len(s)
    /\ \A j \in 1..Len(k) : s[i + j - 1] = k[j]

TimesOf(out, type) == Cardinality({i \in 1..Len(out) : out[i].type = type})

\* C7: detectAutomations returns an action of type email (task, slack) exactly
\* when the lower-cased message contains 'email' ('task', 'slack'), each type at
\* most once, and nothing for the empty message.
C7_DetectIffKeyword ==
  dRan =>
    /\ TimesOf(dOut, "email") = (IF Occurs(toLowerCase(dMsg), KwEmail) THEN 1 ELSE 0)
    /\ TimesOf(dOut, "task") = (IF Occurs(toLowerCase(dMsg), KwTask) THEN 1 ELSE 0)
    /\ TimesOf(dOut, "slack") = (IF Occurs(toLowerCase(dMsg), KwSlack) THEN 1 ELSE 0)
    /\ \A i \in 1..Len(dOut) : dOut[i].type \in {"email", "task", "slack"}
    /\ (dMsg = <<>> => dOut = <<>>)

\* a message with the keyword twice, once in capitals: one email action
C7_Witness ==
  /\ dRan
  /\ dMsg = <<"E","m","A","I","L","e","m","a","i","l">>
  /\ dOut = <<EmailAction(build)>>

Rank(type) == CASE type = "email" -> 1 [] type = "task" -> 2 [] type = "slack" -> 3

\* C8: the actions detectAutomations returns are in the order email, task,
\* slack, wherever the keywords stand in the message.
C8_DetectOrder ==
  dRan => \A i, j \in 1..Len(dOut) : i < j => Rank(dOut[i].type) < Rank(dOut[j].type)

\* the keywords stand in the message in the order slack, task, email
C8_Witness ==
  /\ dRan
  /\ dMsg = <<"s","l","a","c","k","t","a","s","k","e","m","a","i","l">>
  /\ Len(dOut) = 3
  /\ dOut[1].type = "email"
  /\ dOut[2].type = "task"
  /\ dOut[3].type = "slack"

\* C9: two success envelopes for the same message carry the same automations,
\* whatever model was requested or resolved and whatever the upstream returned.
C9_AutomationsDependOnMessageOnly ==
  \A r1, r2 \in Requests :
    EnvelopeOf(r1) /\ EnvelopeOf(r2) /\ reqMessage[r1] = reqMessage[r2] =>
      responses[r1][1].automations = responses[r2][1].automations

C9_Witness ==
  \E r1, r2 \in Requests :
    /\ EnvelopeOf(r1) /\ EnvelopeOf(r2)
    /\ reqMessage[r1] = reqMessage[r2]
    /\ reqModel[r1] = "gpt" /\ reqModel[r2] = "auto"
    /\ responses[r1][1].model # responses[r2][1].model
    /\ responses[r1][1].content # responses[r2][1].content
    /\ Len(responses[r1][1].automations) = 2
    /\ responses[r1][1].automations = responses[r2][1].automations

\* C10: when gpt, claude or llama is requested, Math.random is not called, the
\* provider model sent upstream is the one mapped to the requested model, the
\* router's selected model and the model reported after a successful exchange
\* are the requested model, and two such requests for the same model agree.
C10_ConcreteModelIsDeterministic ==
  /\ \A r \in Requests :
       Arrived(r) /\ reqModel[r] \in Concrete =>
         /\ draws[r] = 0
         /\ \A i \in 1..Len(upstream[r]) :
              upstream[r][i].model = MODEL_MAPPINGS[reqModel[r]]
         /\ (selected[r] # NoValue => selected[r] = reqModel[r])
         /\ (EnvelopeOf(r) /\ UpstreamSucceeded(result[r]) =>
               responses[r][1].model = reqModel[r])
  /\ \A r1, r2 \in Requests :
       /\ reqModel[r1] \in Concrete /\ reqModel[r1] = reqModel[r2]
       /\ upstream[r1] # <<>> /\ upstream[r2] # <<>>
       => upstream[r1][1].model = upstream[r2][1].model

C10_Witness ==
  \E r1, r2 \in Requests :
    /\ r1 # r2
    /\ build \in RoutesBuilds
    /\ reqModel[r1] = "claude" /\ reqModel[r2] = "claude"
    /\ EnvelopeOf(r1) /\ EnvelopeOf(r2)
    /\ selected[r1] = "claude" /\ selected[r2] = "claude"
    /\ responses[r1][1].model = "claude"
    /\ upstream[r1][1].model = "anthropic/claude-3.5-sonnet"

\* C11: when the model is 'auto', one random draw resolves it to one of gpt,
\* claude, llama, the provider model called is that of the resolved model, and
\* a success envelope reports the resolved model.
C11_AutoResolvesAtRandom ==
  \A r \in Requests :
    reqModel[r] = "auto" /\ upstream[r] # <<>> =>
      /\ draws[r] = 1
      /\ selected[r] \in Concrete
      /\ upstream[r][1].model = MODEL_MAPPINGS[selected[r]]
      /\ (EnvelopeOf(r) /\ UpstreamSucceeded(result[r]) =>
            responses[r][1].model = selected[r])

\* C12: every request has at most one upstream call, and a request whose
\* upstream call failed is finished with that one call: it is answered, or
\* chat() is still reading the body of the failed answer; no retry.
C12_AtMostOneUpstreamCall ==
  \A r \in Requests :
    /\ Len(upstream[r]) <= 1
    /\ (UpstreamFailed(result[r]) =>
          /\ Len(upstream[r]) = 1
          /\ \/ Answered(r)
             \/ pc[r] = "awaiting" /\ AwaitsBody(build, result[r]))

C12_Witness ==
  \E r \in Requests :
    /\ UpstreamFailed(result[r])
    /\ Answered(r)
    /\ Len(upstream[r]) = 1
    /\ Len(responses[r]) = 1

\* the detector's answer for the original message of request r
DetectedFor(r) ==
  IF reqMessage[r].kind = "string" THEN detectAutomations(build, reqMessage[r].text) ELSE <<>>

\* C13: the router is called only for a request that passed the message
\* validation; while the router's call is pending neither the detector has run
\* nor a response been sent; the detector runs at most once, only after the
\* router returned without throwing, and the envelope then carries what the
\* detector yields for the original request message.
C13_ValidateRouteDetectAssemble ==
  \A r \in Requests :
    /\ chat[r] # "none" => ~BlankMessage(reqMessage[r]) /\ reqMessage[r].kind = "string"
    /\ chat[r] \in {"none", "pending", "threw"} => detectCalls[r] = 0
    /\ chat[r] = "pending" => responses[r] = <<>> /\ pc[r] = "awaiting"
    /\ detectCalls[r] <= 1
    /\ detectCalls[r] = 1 =>
         /\ chat[r] = "returned"
         /\ EnvelopeOf(r)
         /\ responses[r][1].automations = DetectedFor(r)

C13_Witness ==
  \E r \in Requests :
    /\ chat[r] = "returned"
    /\ upstream[r] # <<>>
    /\ result[r].choices = <<"pong">>
    /\ detectCalls[r] = 1
    /\ responses[r][1].content = "pong"
    /\ responses[r][1].automations = <<EmailAction(build), SlackAction(build)>>

\* the modelUsed values that mark the degraded stand-in
Sentinels == {"fallback", "error"}

\* C14: when the credential was absent at construction, every request that
\* passes validation is answered by a success envelope of the degraded stand-in
\* (modelUsed a sentinel) and no upstream call is issued.
C14_DegradedStandInAnswers ==
  \A r \in Requests :
    /\ ~apiKey
    /\ Answered(r)
    /\ ~InvalidInput(reqMessage[r], reqModel[r])
    /\ reqMessage[r].kind = "string"
    => /\ EnvelopeOf(r)
       /\ responses[r][1].model \in Sentinels
       /\ upstream[r] = <<>>

\* C15: a health answer reports the backend as configured exactly when the
\* credential was present at construction.
C15_HealthReportsCredential ==
  health.status = "ok" => (health.openRouterAvailable = "true" <=> apiKey)

\* C16: with an operational router, a request that reaches chat() with a model
\* that has no entry in the mapping table issues no upstream call and is
\* answered by an error.
C16_UnmappedModelFailsLoudly ==
  \A r \in Requests :
    /\ Arrived(r)
    /\ apiKey
    /\ ~BlankMessage(reqMessage[r]) /\ reqMessage[r].kind = "string"
    /\ ChatModelArg(build, reqModel[r]) \notin ValidModels
    => /\ upstream[r] = <<>>
       /\ Answered(r)
       /\ responses[r][1].kind = "error"

\* C17: a failed request never takes the process down: the server is still
\* accepting requests in every reachable state, and every request whose
\* upstream call succeeded is answered by exactly one 200 success envelope,
\* whatever failed before it or beside it.
C17_FailureIsContained ==
  /\ ~crashed
  /\ \A r \in Requests :
       /\ (Serving /\ pc[r] = "idle" => ENABLED Submit(r, Str(<<"h","i">>), "gpt", 0))
       /\ (Answered(r) /\ UpstreamSucceeded(result[r]) =>
             /\ Len(responses[r]) = 1
             /\ responses[r][1].kind = "envelope"
             /\ responses[r][1].status = 200)

C17_Witness ==
  \E r1, r2 \in Requests :
    /\ Answered(r1)
    /\ UpstreamFailed(result[r1])
    /\ responses[r1][1].status = 500
    /\ Answered(r2)
    /\ result[r2].choices = <<"pong">>
    /\ responses[r2][1].status = 200
    /\ responses[r2][1].content = "pong"

\* what the caller of request r observes, the identifier aside
OutcomeOf(r) ==
  [status |-> responses[r][1].status,
   kind |-> responses[r][1].kind,
   content |-> responses[r][1].content,
   model |-> responses[r][1].model,
   automations |-> responses[r][1].automations]

\* what chat() gives for request r, from the request's own data and the
\* process' configuration alone
OwnChat(r) ==
  LET arg == ChatModelArg(build, reqModel[r]) IN
  IF ServiceAtConstruction(build, apiKey) = "degraded" THEN DegradedChat(build)
  ELSE IF build \in RoutesBuilds /\ selected[r] \notin DOMAIN MODEL_MAPPINGS
    THEN Threw("Failed to get AI response: Unsupported model: " \o selected[r])
  ELSE IF ~fetchAvailable THEN NoFetchChat(build, arg)
  ELSE ChatAfterFetch(build, arg, selected[r], result[r])

\* the outcome request r has when it is the only request the process ever
\* receives: a function of its message, its model, its random choice
\* (selected) and its upstream result, read at clock 0 with no identifier drawn
OwnOutcome(r) ==
  LET v == Validate(build, reqMessage[r], reqModel[r])
      resp ==
        CASE v = "message" -> ErrorResponse(400, "Message is required")
          [] v = "model" -> ErrorResponse(400, "Valid model selection is required")
          [] v = "throw" -> HandlerCatch(build, "message.trim is not a function", 0)
          [] v = "ok" -> HandlerAfterChat(build, reqMessage[r], OwnChat(r), 0, 0)
  IN [status |-> resp.status, kind |-> resp.kind, content |-> resp.content,
      model |-> resp.model, automations |-> resp.automations]

\* C18: in every interleaving of the handler steps and upstream completions
\* of the requests, a request a handler has answered has exactly the outcome
\* (status, kind, content, model, automations) that its own message, its own
\* model, its own random choice and its own upstream result give, whatever
\* the data, the progress and the results of the other requests are; so two
\* requests that agree in these four have the same outcome.
C18_RequestsAreIndependent ==
  /\ \A r \in Requests :
       Serving /\ Answered(r) =>
         /\ Len(responses[r]) = 1
         /\ OutcomeOf(r) = OwnOutcome(r)
  /\ \A r1, r2 \in Requests :
       /\ Answered(r1) /\ Answered(r2)
       /\ reqMessage[r1] = reqMessage[r2]
       /\ reqModel[r1] = reqModel[r2]
       /\ selected[r1] = selected[r2]
       /\ result[r1] = result[r2]
       /\ Serving
       => OutcomeOf(r1) = OutcomeOf(r2)

\* two requests with different messages, models, random choices and upstream
\* results, both answered after an upstream call, the second identifier drawn
\* going to the request with the failure-free exchange
C18_Witness ==
  \E r1, r2 \in Requests :
    /\ r1 # r2
    /\ Answered(r1) /\ Answered(r2)
    /\ reqMessage[r1] = Str(<<"S","l","a","c","k"," ","E","M","A","I","L">>)
    /\ reqMessage[r2] = Str(<<"h","i">>)
    /\ reqModel[r1] = "auto" /\ selected[r1] = "llama"
    /\ reqModel[r2] = "gpt"
    /\ result[r1].choices = <<"pong">>
    /\ result[r2].choices = <<"">>
    /\ upstream[r1] # <<>> /\ upstream[r2] # <<>>
    /\ responses[r1][1].id = "uuid-2"
    /\ OutcomeOf(r1).content = "pong"
    /\ OutcomeOf(r1).model = "llama"
    /\ OutcomeOf(r1).automations # <<>>
    /\ OutcomeOf(r2).content = Placeholder
    /\ OutcomeOf(r2).automations = <<>>

\* C19: a request that issued an upstream call has no response until that
\* call has settled; while the call is pending (the fetch, or the reading of
\* the answer's body) the request stays unanswered, and every other pending
\* request can still be resumed.
C19_NoResponseBeforeUpstreamSettles ==
  \A r \in Requests :
    /\ (upstream[r] # <<>> /\ responses[r] # <<>> => result[r] # NoResult)
    /\ (pc[r] = "awaiting" =>
          /\ responses[r] = <<>>
          /\ (result[r] # NoResult => AwaitsBody(build, result[r]))
          /\ \A q \in Requests \ {r} :
               pc[q] = "awaiting" =>
                 ENABLED (\/ UpstreamReply(q, CHOOSE res \in UpstreamResults :
                                                res.choices = <<"pong">>)
                          \/ \E res \in UpstreamResults : BodyRead(q, res)))

C19_Witness ==
  \E r, q \in Requests :
    /\ pc[r] = "awaiting"
    /\ upstream[r] # <<>>
    /\ responses[r] = <<>>
    /\ Answered(q)
    /\ upstream[q] # <<>>
    /\ result[q] # NoResult
    /\ Len(responses[q]) = 1

\* C20: every upstream request carries exactly one message, of role 'user'
\* and with the request's message as content, max_tokens 1000, temperature 0.7
\* (7 tenths), and a provider model of the table: that of the resolved model,
\* which is the requested model when that is gpt, claude or llama.
C20_UpstreamRequestShape ==
  \A r \in Requests :
    \A i \in 1..Len(upstream[r]) :
      LET body == upstream[r][i] IN
      /\ Len(body.messages) = 1
      /\ body.messages[1].role = "user"
      /\ reqMessage[r].kind = "string"
      /\ body.messages[1].content = reqMessage[r].text
      /\ body.max_tokens = 1000
      /\ body.temperature = 7
      /\ body.model \in {"openai/gpt-4o", "anthropic/claude-3.5-sonnet",
                         "meta-llama/llama-3.1-70b-instruct"}
      /\ (selected[r] \in Concrete => body.model = MODEL_MAPPINGS[selected[r]])
      /\ (reqModel[r] \in Concrete => body.model = MODEL_MAPPINGS[reqModel[r]])

C20_Witness ==
  \E r \in Requests :
    /\ reqModel[r] = "auto"
    /\ selected[r] = "llama"
    /\ reqMessage[r] = Str(<<"S","l","a","c","k"," ","E","M","A","I","L">>)
    /\ upstream[r] =
         << [model |-> "meta-llama/llama-3.1-70b-instruct",
             messages |-> << [role |-> "user",
                              content |-> <<"S","l","a","c","k"," ","E","M","A","I","L">>] >>,
             max_tokens |-> 1000,
             temperature |-> 7] >>

\* C21: once a chat or a health request has arrived, the mapping table is
\* still the one the process was started with and has exactly the three
\* entries gpt, claude and llama with their provider models; the other state
\* the requests share (the service object held, the process being up) is
\* unchanged as well.
C21_MappingIsReadOnly ==
  (\E r \in Requests : Arrived(r)) \/ health # NoHealth =>
    /\ mapping = MappingAtConstruction(build)
    /\ service = ServiceAtConstruction(build, apiKey)
    /\ ~crashed
    /\ DOMAIN mapping = {"gpt", "claude", "llama"}
    /\ mapping["gpt"] = "openai/gpt-4o"
    /\ mapping["claude"] = "anthropic/claude-3.5-sonnet"
    /\ mapping["llama"] = "meta-llama/llama-3.1-70b-instruct"

\* the frame half of C21 alone, which every build keeps
C21_SharedStateUnchanged ==
  /\ mapping = MappingAtConstruction(build)
  /\ service = ServiceAtConstruction(build, apiKey)
  /\ ~crashed
  /\ (build \in RoutesBuilds => mapping = MODEL_MAPPINGS)

C21_Witness ==
  /\ build = "safeRoutes"
  /\ health.status = "ok"
  /\ \E r \in Requests :
       /\ reqModel[r] = "auto"
       /\ Answered(r)
       /\ upstream[r] # <<>>
  /\ DOMAIN mapping = {"gpt", "claude", "llama"}

\* C22: the service variant held is the one chosen at construction, in every
\* state; and with either variant the handler calls chat() exactly for the
\* requests that pass its validation and runs the detector once chat()
\* returned.
C22_VariantFixedAtConstruction ==
  /\ service = ServiceAtConstruction(build, apiKey)
  /\ \A r \in Requests :
       Arrived(r) /\ service # "none" =>
         /\ (chat[r] # "none" <=> Validate(build, reqMessage[r], reqModel[r]) = "ok")
         /\ (chat[r] = "returned" => detectCalls[r] = 1 /\ EnvelopeOf(r))

C22_Witness ==
  \E r1, r2 \in Requests :
    /\ service = "operational"
    /\ Answered(r1) /\ UpstreamFailed(result[r1])
    /\ Answered(r2) /\ chat[r2] = "returned" /\ upstream[r2] # <<>>
    /\ responses[r2][1].model \notin Sentinels

\* C23: no request ever has two responses, an answered request has exactly
\* one, and, when every upstream call settles (and, where no chat route
\* exists, every reading of the page by the catch-all ends), every request
\* that arrived is eventually answered by exactly one response.
C23_ExactlyOneResponse ==
  /\ [](\A r \in Requests :
          /\ Len(responses[r]) <= 1
          /\ (Answered(r) => Len(responses[r]) = 1))
  /\ \A r \in Requests : Arrived(r) ~> (Answered(r) /\ Len(responses[r]) = 1)

C23_Witness ==
  \E r1, r2 \in Requests :
    /\ r1 # r2
    /\ Answered(r1) /\ UpstreamFailed(result[r1]) /\ Len(responses[r1]) = 1
    /\ Answered(r2) /\ upstream[r2] = <<>> /\ Len(responses[r2]) = 1

\* C24: a request whose message is present but not a string issues no upstream
\* call and is answered by a client error (a 4xx status), like a missing
\* message.
C24_NonStringMessageIsClientError ==
  \A r \in Requests :
    Arrived(r) /\ service # "none" /\ reqMessage[r].kind = "number" =>
      /\ upstream[r] = <<>>
      /\ Answered(r)
      /\ responses[r][1].kind = "error"
      /\ responses[r][1].status \in 400..499

\* C25: where a handler runs, a request whose message is missing, empty or
\* whitespace-only is answered 'Message is required' whatever its model, and
\* 'Valid model selection is required' is answered only to a request whose
\* message is a non-blank string and whose model is missing or not one of the
\* four values; both are 400 errors with different texts.
C25_MessageCheckedBeforeModel ==
  \A r \in Requests :
    Arrived(r) /\ service # "none" =>
      /\ (BlankMessage(reqMessage[r]) =>
            /\ Answered(r)
            /\ Len(responses[r]) = 1
            /\ responses[r][1].status = 400
            /\ responses[r][1].error = "Message is required")
      /\ (Answered(r) /\ responses[r][1].error = "Valid model selection is required" =>
            /\ responses[r][1].status = 400
            /\ reqMessage[r].kind = "string"
            /\ ~BlankMessage(reqMessage[r])
            /\ reqModel[r] \notin {"auto", "gpt", "claude", "llama"})

C25_Witness ==
  \E r1, r2 \in Requests :
    /\ Answered(r1)
    /\ reqMessage[r1] = Str(<<" ", "\f">>)
    /\ reqModel[r1] = "gpt5"
    /\ responses[r1][1].error = "Message is required"
    /\ Answered(r2)
    /\ reqMessage[r2] = Str(<<"h", "i">>)
    /\ reqModel[r2] = "gpt5"
    /\ responses[r2][1].error = "Valid model selection is required"

\* C26: with an operational router, a success envelope that follows a
\* successful upstream exchange names in its model field one of gpt, claude,
\* llama, and the provider model sent upstream is the one mapped to it.
C26_ReportedModelIsCalledModel ==
  \A r \in Requests :
    /\ service = "operational"
    /\ EnvelopeOf(r)
    /\ upstream[r] # <<>>
    /\ UpstreamSucceeded(result[r])
    => /\ responses[r][1].model \in DOMAIN MODEL_MAPPINGS
       /\ upstream[r][1].model = MODEL_MAPPINGS[responses[r][1].model]

\* the fixed contents of the degraded stand-ins
UnavailableContents ==
  { DegradedChat(b).content : b \in Builds \ {"routes"} }

\* C27: in degraded mode a blank message is answered 'Message is required',
\* and a request the handler accepts is answered, with no upstream call, by one
\* envelope with the fixed unavailable content, a sentinel model, the
\* automations the detector yields for its message, and an id that no other
\* envelope carries.
C27_DegradedModeValidatesAndDetects ==
  service = "degraded" =>
    \A r \in Requests :
      Answered(r) =>
        /\ (BlankMessage(reqMessage[r]) =>
              /\ responses[r][1].status = 400
              /\ responses[r][1].error = "Message is required")
        /\ (Validate(build, reqMessage[r], reqModel[r]) = "ok" =>
              /\ upstream[r] = <<>>
              /\ Len(responses[r]) = 1
              /\ responses[r][1].kind = "envelope"
              /\ responses[r][1].content \in UnavailableContents
              /\ responses[r][1].model \in Sentinels
              /\ detectCalls[r] = 1
              /\ responses[r][1].automations = DetectedFor(r)
              /\ \A q \in Requests \ {r} :
                   EnvelopeOf(q) => responses[q][1].id # responses[r][1].id)

\* C28: the page has at most one chat request in flight at any time.
C28_AtMostOneRequestInFlight ==
  Cardinality(cInflight) <= 1

\* C29: when the answers to POST /api/chat are envelopes (id, content, model,
\* automations) or failures, the response list changes only by a successful
\* request putting its envelope in front of the unchanged former list, and
\* the message box is emptied in that same step; a failed request, a rejected
\* submit and a click on the disabled button leave the list and the message
\* box as they are; and apart from the user's own editing the message box is
\* emptied only in a step that adds a response.  (A 2xx body that is no
\* envelope and is put in the list ends the page: that one step, to
\* "unmounted", is left out; the steps after it are not.)
C29_ResponseListGrowsByPrepending ==
  [][ ~(Mounted /\ cEvent' = "unmounted") =>
      /\ (cResponses' # cResponses =>
            /\ cEvent' = "success"
            /\ Len(cResponses') = Len(cResponses) + 1
            /\ Tail(cResponses') = cResponses
            /\ \E q \in cInflight \ cInflight' : cResponses'[1].id = "r" \o ToString(q.n)
            /\ cMessage' = <<>>)
      /\ (cInflight' # cInflight /\ cEvent' = "failure" =>
            cResponses' = cResponses /\ cMessage' = cMessage)
      /\ (cEvent' \in {"rejected", "ignored"} =>
            cResponses' = cResponses /\ cMessage' = cMessage /\ cInflight' = cInflight)
      /\ (cMessage # <<>> /\ cMessage' = <<>> /\ cEvent' # "typed" =>
            cResponses' # cResponses)
    ]_vars

C29_Witness ==
  /\ Len(cResponses) = 2
  /\ cResponses[1].id = "r2"
  /\ cResponses[2].id = "r1"
  /\ cEvent = "failure"
  /\ cMessage = <<"h","i">>
  /\ cSent = 3

\* the page ends only on a 2xx body that lacks the model or the automations
\* of an envelope: every response displayed has both
C29_DisplayedAreEnvelopes ==
  /\ Renders(cResponses)
  /\ \A i \in 1..Len(cResponses) : cResponses[i].type = "object"

====
